---- MODULE Spec2Model ----
(***************************************************************************)
(* GPS tracker firmware (src/src/tracking.cpp): the byte-stream reader     *)
(* read_serial, the AT command/response engine sendATcommand, the location *)
(* tracker gps_encode, the upload PUT_REQUEST, the diagnostics handlers    *)
(* and the control loop, as one single-threaded state machine driven by a  *)
(* program counter.  The environment delivers bytes on the two serial      *)
(* channels and lets the millisecond clock advance.                        *)
(*                                                                         *)
(* Time is in clock ticks.  The program uses millis() only in the two      *)
(* differences millis() - send_time and millis() - last_gps_read, so the   *)
(* state holds these two differences (send_age, gps_read_age) instead of   *)
(* the three absolute values; both grow by one with every tick and by n    *)
(* with delay(n), and stop growing at a value above every threshold they   *)
(* are compared with.  Between two readings of the clock by a polling      *)
(* loop at most one tick passes.                                           *)
(***************************************************************************)
EXTENDS Integers, Sequences, FiniteSets, TLC

(* ---------------------------- bounds ----------------------------------- *)
\* capacity of msgStream (4097 in the source, scaled down)
MESSAGE_BUFFER_SIZE == 3
\* default _timeout of sendATcommand (4000 ms in the source, scaled down)
DefaultTimeout == 2
\* largest _timeout the engine is exercised with on its own
MaxTimeout == 2
\* GPS polling interval (10000 ms in the source, scaled down)
GpsInterval == 2
\* bytes a SoftwareSerial receive queue can hold
MaxGps == 1
MaxGsm == 1
\* delay(2) of read_serial, line 121
SettleDelay == 2

(* ---------------------------- bytes ------------------------------------ *)
NUL == 0
\* bytes the GPS receiver emits: 1 and 2 stand for a complete position
\* sentence, 3 for any other sentence
GpsBytes == {1, 2, 3}
\* bytes the modem emits
GsmBytes == {4}
NoFix == <<>>
\* the position a GPS byte makes the decoder commit, NoFix for none
FixOf(c) == IF c = 1 THEN <<1, 1>> ELSE IF c = 2 THEN <<1, 2>> ELSE NoFix

Min(a, b) == IF a < b THEN a ELSE b
Max(a, b) == IF a < b THEN b ELSE a

\* where the two clock differences stop growing
SendAgeCap == Max(DefaultTimeout, MaxTimeout)
              + MESSAGE_BUFFER_SIZE * SettleDelay + 2
GpsAgeCap == GpsInterval + 1
\* delay(30000) of setup, three polling intervals long
SetupDelay == 3 * GpsInterval

(* --------------------------- variables --------------------------------- *)
VARIABLES
    pc,                 \* position of the single thread of control
    at_ret,             \* where sendATcommand returns to
    rs_ret,             \* where read_serial returns to
    setup_i,            \* index of the next command of setup / enableGPRS
    GSM_Serial,         \* receive queue of the modem channel
    GPS_Serial,         \* receive queue of the GPS channel
    softSerial,         \* the channel read_serial / sendATcommand work on
    msgStream,          \* the shared buffer, 0 .. MESSAGE_BUFFER_SIZE-1
    bufferfull,         \* local of read_serial
    buff_pos,           \* local of read_serial
    CMD,                \* parameters and locals of sendATcommand
    _timeout,
    ASSERT_BUFFER,
    send_age,           \* millis() - send_time
    gps_read_age,       \* millis() - last_gps_read
    gps,                \* TinyGPSPlus decoder: [valid, lat, lng]
    _lat, _long, _prevLat, _prevLong, _newLat, _newLong,
    isLocationUpdated,
    data,               \* parameter of PUT_REQUEST: the payload characters
    wifi,               \* "ap", "disconnected" or "off"
    \* history variables, read by the properties only
    taken,              \* bytes read_serial took from the source in this call
    rx_exch,            \* byte values taken from the modem in this exchange
    lastResponse,       \* msgStream as text when the last exchange was DONE,
                        \* <<-1>> while an exchange is under way
    events,             \* SENT / DONE events of the current operation
    eval,               \* what the last gps_encode evaluation saw and did
    rst_log             \* order of the steps sys_restart has taken

vars == <<pc, at_ret, rs_ret, setup_i, GSM_Serial, GPS_Serial,
          softSerial, msgStream, bufferfull, buff_pos, CMD, _timeout,
          ASSERT_BUFFER, send_age, gps_read_age, gps, _lat, _long,
          _prevLat, _prevLong, _newLat, _newLong, isLocationUpdated,
          data, wifi, taken, rx_exch,
          lastResponse, events, eval, rst_log>>

\* groups used in UNCHANGED
trackerVars == <<_lat, _long, _prevLat, _prevLong, _newLat, _newLong,
                 isLocationUpdated>>
readerVars  == <<softSerial, msgStream, bufferfull, buff_pos, taken, rs_ret>>
engineVars  == <<CMD, _timeout, ASSERT_BUFFER, at_ret,
                 rx_exch, lastResponse, events>>
clockVars   == <<send_age, gps_read_age>>
chanVars    == <<GSM_Serial, GPS_Serial>>
otherVars   == <<setup_i, gps, data, wifi, eval, rst_log>>

(* ------------------------- pure helpers -------------------------------- *)
BufIdx == 0 .. (MESSAGE_BUFFER_SIZE - 1)

\* the C string a char* denotes: the bytes before the first NUL
RECURSIVE CStrFrom(_, _)
CStrFrom(buffer, i) ==
    IF i \notin DOMAIN buffer \/ buffer[i] = NUL THEN <<>>
    ELSE <<buffer[i]>> \o CStrFrom(buffer, i + 1)
CStr(buffer) == CStrFrom(buffer, 0)

\* memset left out: the buffer keeps what it held
memsetKeep(buffer) == buffer
\* memset(buffer, 0, MESSAGE_BUFFER_SIZE), line 108
memset(buffer) == [i \in BufIdx |-> NUL]

\* the test of line 113 left out
IsFullNever(pos) == FALSE
\* the test of line 113, one too far
IsFullLate(pos) == pos = MESSAGE_BUFFER_SIZE
\* the test of line 113
IsFull(pos) == pos = MESSAGE_BUFFER_SIZE - 1

\* the condition of line 143 with the fill_buffer flag inverted
LoopContinuesUnlessFill(el, t, fill) == el < t \/ ~ fill
\* the condition of line 143 without its fill_buffer disjunct
LoopContinuesTimed(el, t, fill) == el < t
\* the condition of line 143 if it let the loop go one tick early
LoopContinuesEarly(el, t, fill) == el + 1 < t \/ fill
\* the condition of line 143 if it were the negation of the disjunction
\* elapsed >= timeout OR NOT fill
LoopContinuesAnd(el, t, fill) == el < t /\ fill
\* the condition of the do-while of sendATcommand, line 143
LoopContinues(el, t, fill) == el < t \/ fill

\* softSerial->available() and the queue behind the pointer
Queue(s) == IF s = "GSM" THEN GSM_Serial ELSE GPS_Serial
available(s) == Len(Queue(s))

\* the exchange of sendATcommand is between SENT and DONE
InExchange ==
    \/ pc \in {"at_poll", "at_cond", "at_done"}
    \/ pc \in {"rs_init", "rs_loop", "rs_return"}
       /\ rs_ret = "at_cond"

\* the ticks that can pass between two readings of the clock in a polling
\* loop
PollTicks == {0, 1}

\* n ticks pass: both clock differences grow
Pass(n) ==
    /\ send_age' = IF InExchange THEN Min(send_age + n, SendAgeCap)
                                 ELSE send_age
    /\ gps_read_age' = Min(gps_read_age + n, GpsAgeCap)

(* ------------------------- environment --------------------------------- *)
\* the GPS receiver delivers a byte
GpsArrive ==
    /\ Len(GPS_Serial) < MaxGps
    /\ \E c \in GpsBytes : GPS_Serial' = Append(GPS_Serial, c)
    /\ UNCHANGED <<pc, GSM_Serial, readerVars, engineVars, clockVars,
                   trackerVars, otherVars>>

\* the modem delivers a byte
GsmArrive ==
    /\ Len(GSM_Serial) < MaxGsm
    /\ \E c \in GsmBytes : GSM_Serial' = Append(GSM_Serial, c)
    /\ UNCHANGED <<pc, GPS_Serial, readerVars, engineVars, clockVars,
                   trackerVars, otherVars>>

(* -------------------- read_serial, lines 104-125 ----------------------- *)
\* the call read_serial(src, msgStream), returning to ret
CallRS(src, ret) ==
    /\ softSerial' = src
    /\ rs_ret' = ret
    /\ pc' = "rs_init"

\* the write index if it started behind the text already in the buffer
StartAppend(buffer) == Len(CStr(buffer))
\* the initial value of buff_pos, line 107
StartPos(buffer) == 0

\* lines 106-108
RSInit ==
    /\ pc = "rs_init"
    /\ bufferfull' = FALSE
    /\ buff_pos' = StartPos(msgStream)
    /\ msgStream' = memset(msgStream)
    /\ taken' = <<>>
    /\ pc' = "rs_loop"
    /\ UNCHANGED <<softSerial, rs_ret, chanVars, engineVars, clockVars,
                   trackerVars, otherVars>>

\* buffer[pos] = c, lines 119 and 124
store(buffer, pos, c) == [buffer EXCEPT ![pos] = c]

\* one evaluation of the while condition and, if it holds, one pass through
\* the body, lines 109-122; when the loop ends (condition false, or break
\* at line 117) the terminator of line 124 is written
RSLoop ==
    /\ pc = "rs_loop"
    /\ IF available(softSerial) > 0 /\ ~ bufferfull
       THEN LET c == Head(Queue(softSerial)) IN
            /\ IF softSerial = "GSM"
               THEN GSM_Serial' = Tail(GSM_Serial) /\ UNCHANGED GPS_Serial
               ELSE GPS_Serial' = Tail(GPS_Serial) /\ UNCHANGED GSM_Serial
            /\ taken' = Append(taken, c)
            /\ rx_exch' = IF InExchange THEN rx_exch \cup {c} ELSE rx_exch
            /\ IF IsFull(buff_pos)
               THEN /\ bufferfull' = TRUE
                    /\ msgStream' = store(msgStream, buff_pos, NUL)
                    /\ pc' = "rs_return"
                    /\ UNCHANGED <<buff_pos, send_age, gps_read_age>>
               ELSE /\ msgStream' = store(msgStream, buff_pos, c)
                    /\ buff_pos' = buff_pos + 1
                    /\ Pass(SettleDelay)
                    /\ pc' = "rs_loop"
                    /\ UNCHANGED bufferfull
       ELSE /\ msgStream' = store(msgStream, buff_pos, NUL)
            /\ pc' = "rs_return"
            /\ UNCHANGED <<chanVars, taken, rx_exch, buff_pos,
                           bufferfull, send_age, gps_read_age>>
    /\ UNCHANGED <<softSerial, rs_ret, CMD, _timeout,
                   ASSERT_BUFFER, at_ret, lastResponse, events,
                   trackerVars, otherVars>>

\* line 125: the return; the locals cease to exist
RSReturn ==
    /\ pc = "rs_return"
    /\ pc' = rs_ret
    /\ rs_ret' = "none"
    /\ softSerial' = IF rs_ret = "at_cond" THEN softSerial ELSE "none"
    /\ bufferfull' = FALSE
    /\ buff_pos' = 0
    /\ taken' = <<>>
    /\ UNCHANGED <<msgStream, chanVars, engineVars, clockVars,
                   trackerVars, otherVars>>

(* ------------------- sendATcommand, lines 127-153 ---------------------- *)
\* a line written to the modem: fixed text, or text followed by a number
\* (and a fixed tail), or the characters of a payload
Line(text) == [head |-> text, arg |-> <<>>, tail |-> ""]
NoCmd == Line("")

\* display_logs, lines 319-326: the page made of the text in msgStream
LogsPage(buffer) == [code |-> 200, view |-> "logs", body |-> CStr(buffer)]

\* the call: parameters are bound and control enters line 129
CallAT(cmd, t, fill, ret) ==
    /\ CMD' = cmd
    /\ _timeout' = t
    /\ ASSERT_BUFFER' = fill
    /\ softSerial' = "GSM"
    /\ at_ret' = ret
    /\ pc' = "at_flush"

\* cleanSerial, lines 155-166, called at line 131: the modem queue is
\* drained (bytes pending on the diagnostic channel are discarded as well;
\* nothing ever reads them, so that channel carries no state)
ATFlush ==
    /\ pc = "at_flush"
    /\ GSM_Serial' = <<>>
    /\ pc' = "at_send"
    /\ UNCHANGED <<GPS_Serial, readerVars, engineVars, clockVars,
                   trackerVars, otherVars>>

\* lines 133-134: the line is written, send_time = millis()
ATSend ==
    /\ pc = "at_send"
    /\ events' = Append(events, <<"SENT", CMD>>)
    /\ send_age' = 0
    /\ rx_exch' = {}
    /\ lastResponse' = <<-1>>
    /\ pc' = "at_poll"
    /\ UNCHANGED <<gps_read_age, CMD, _timeout, ASSERT_BUFFER, at_ret,
                   chanVars, readerVars, trackerVars, otherVars>>

\* lines 139-142 if the wait loop also drained the GPS channel
ATPollGps ==
    /\ pc = "at_poll"
    /\ IF available("GPS") > 0
       THEN CallRS("GPS", "at_cond")
       ELSE IF available("GSM") > 0
       THEN CallRS("GSM", "at_cond")
       ELSE pc' = "at_cond" /\ UNCHANGED <<softSerial, rs_ret>>
    /\ UNCHANGED <<msgStream, bufferfull, buff_pos, taken,
                   chanVars, engineVars, clockVars, trackerVars,
                   otherVars>>

\* lines 139-142
ATPoll ==
    /\ pc = "at_poll"
    /\ IF available(softSerial) > 0
       THEN CallRS(softSerial, "at_cond")
       ELSE pc' = "at_cond" /\ UNCHANGED <<softSerial, rs_ret>>
    /\ UNCHANGED <<msgStream, bufferfull, buff_pos, taken,
                   chanVars, engineVars, clockVars, trackerVars,
                   otherVars>>

\* line 143: millis() is read and the condition evaluated
ATCond ==
    /\ pc = "at_cond"
    /\ \E d \in PollTicks : Pass(d)
    /\ IF LoopContinues(send_age', _timeout, ASSERT_BUFFER)
       THEN pc' = "at_poll"
       ELSE pc' = "at_done"
    /\ UNCHANGED <<chanVars, readerVars, engineVars, trackerVars, otherVars>>

\* lines 145-153: the echo to the diagnostic channel, display_logs, return;
\* the parameters and locals cease to exist
ATDone ==
    /\ pc = "at_done"
    /\ lastResponse' = CStr(msgStream)
    /\ events' = Append(events, <<"DONE", CMD>>)
    /\ pc' = at_ret
    /\ at_ret' = "none"
    /\ CMD' = NoCmd
    /\ _timeout' = 0
    /\ ASSERT_BUFFER' = FALSE
    /\ send_age' = 0
    /\ rx_exch' = {}
    /\ softSerial' = "none"
    /\ UNCHANGED <<gps_read_age, chanVars, msgStream, bufferfull, buff_pos,
                   taken, rs_ret, trackerVars, otherVars>>

(* ------------------ strings built by the program ----------------------- *)
Digit(k) == <<"0", "1", "2", "3", "4", "5", "6", "7", "8", "9">>[k + 1]

\* String(n) for an unsigned integer: its decimal digits
RECURSIVE DecDigits(_)
DecDigits(n) ==
    IF n < 10 THEN <<Digit(n)>> ELSE DecDigits(n \div 10) \o <<Digit(n % 10)>>

\* String(d, 9) for a double holding a whole number of degrees: sign,
\* integer digits, the point and nine decimals
Str9(d) ==
    (IF d < 0 THEN <<"-">> ELSE <<>>)
    \o DecDigits(IF d < 0 THEN 0 - d ELSE d)
    \o <<".", "0", "0", "0", "0", "0", "0", "0", "0", "0">>

\* gps_update of line 246
Payload(lat, lng) ==
    <<"{", "\"", "l", "a", "t", "\"", ":">> \o Str9(lat)
    \o <<",", "\"", "l", "o", "n", "g", "\"", ":">> \o Str9(lng)
    \o <<"}">>

\* data.length() taken one too large
data_lengthOff(d) == Len(d) + 1
\* data_length of line 189
data_length(d) == Len(d)

\* HTTPCFG of line 190
HTTPCFG(n) == [head |-> "AT+QHTTPPUT=", arg |-> DecDigits(n), tail |-> ",30,60"]
\* the payload as the command of the second exchange, line 194
DataLine(d) == [head |-> "", arg |-> d, tail |-> ""]

\* the commands of setup, lines 79-82
SetupCmds == <<Line("AT"), Line("AT+QIACT=0"), Line("AT+CGATT=0"),
               Line("AT+CFUN=1,1")>>
\* the commands of enableGPRS, lines 175-183
GprsCmds == <<Line("AT+CGATT=1"), Line("AT+QICSGP=1,1"), Line("AT+QIACT=1"),
              Line("AT+QHTTPCFG=\"sslctxid\",1"),
              Line("AT+QHTTPCFG=\"url\",\"FIREBASE_URL\""),
              Line("AT+QHTTPCFG=\"contextid\",1"),
              Line("AT+QHTTPCFG=\"responseheader\",1"),
              Line("AT+QHTTPCFG=\"rspout/auto\",1"),
              Line("AT+QHTTPCFG=\"header\",\"Content-Type: application/json\"")>>

(* ----------------------- setup, lines 62-85 ---------------------------- *)
\* lines 65-78: serial ports, access point, web server, the two short delays
Setup ==
    /\ pc = "setup_begin"
    /\ wifi' = "ap"
    /\ Pass(1)
    /\ setup_i' = 1
    /\ events' = <<>>
    /\ pc' = "setup_at"
    /\ UNCHANGED <<chanVars, readerVars, CMD, _timeout,
                   ASSERT_BUFFER, at_ret, rx_exch, lastResponse, trackerVars,
                   gps, data, eval, rst_log>>

\* lines 79-82: the next of the four commands
SetupAT ==
    /\ pc = "setup_at"
    /\ setup_i <= Len(SetupCmds)
    /\ CallAT(SetupCmds[setup_i], DefaultTimeout, FALSE, "setup_at")
    /\ setup_i' = setup_i + 1
    /\ UNCHANGED <<rx_exch, lastResponse, events, msgStream, bufferfull,
                   buff_pos, taken, rs_ret, chanVars, clockVars,
                   trackerVars, gps, data, wifi, eval, rst_log>>

\* line 83
SetupWait ==
    /\ pc = "setup_at"
    /\ setup_i > Len(SetupCmds)
    /\ Pass(SetupDelay)
    /\ setup_i' = 1
    /\ pc' = "gprs"
    /\ UNCHANGED <<chanVars, readerVars, engineVars, trackerVars,
                   gps, data, wifi, eval, rst_log>>

\* enableGPRS, lines 168-184: the next of the nine commands
EnableGPRS ==
    /\ pc = "gprs"
    /\ setup_i <= Len(GprsCmds)
    /\ CallAT(GprsCmds[setup_i], DefaultTimeout, FALSE, "gprs")
    /\ setup_i' = setup_i + 1
    /\ UNCHANGED <<rx_exch, lastResponse, events, msgStream, bufferfull,
                   buff_pos, taken, rs_ret, chanVars, clockVars,
                   trackerVars, gps, data, wifi, eval, rst_log>>

\* setup returns, loop is entered
EnterLoop ==
    /\ pc = "gprs"
    /\ setup_i > Len(GprsCmds)
    /\ setup_i' = 1
    /\ events' = <<>>
    /\ pc' = "loop_handle"
    /\ UNCHANGED <<chanVars, readerVars, CMD, _timeout, ASSERT_BUFFER, at_ret,
                   rx_exch, lastResponse, clockVars, trackerVars, gps, data,
                   wifi, eval, rst_log>>

(* ------------- server.handleClient, line 90, and the handlers ---------- *)
\* gps_status_send, lines 258-282: the page made of the tracker state
StatusPage ==
    [code |-> 200, view |-> "status",
     body |-> <<IF _lat # 0 /\ _long # 0 THEN <<_lat, _long>> ELSE <<>>,
                IF isLocationUpdated
                THEN <<_prevLat, _newLat, _prevLong, _newLong>> ELSE <<>> >>]

\* a handler hands its page to the web server, which delivers it to the
\* client; no variable of the program changes
HandlerFrame ==
    /\ UNCHANGED <<send_age, gps_read_age, chanVars, readerVars, engineVars,
                   trackerVars, setup_i, gps, data, wifi, eval, rst_log>>

\* no request is pending
HandleNone ==
    /\ pc = "loop_handle"
    /\ pc' = "loop_gps"
    /\ HandlerFrame

\* a request for "/" is served by gps_status_send
GpsStatusSend ==
    /\ pc = "loop_handle"
    /\ pc' = "loop_gps"
    /\ HandlerFrame

\* a request for "/logs" is served by display_logs, lines 319-326
DisplayLogs ==
    /\ pc = "loop_handle"
    /\ pc' = "loop_gps"
    /\ HandlerFrame

\* any other path is served by handle_NotFound, lines 343-346
HandleNotFound ==
    /\ pc = "loop_handle"
    /\ pc' = "loop_gps"
    /\ HandlerFrame

\* a request for "/restart" enters sys_restart, line 330
SysRestart ==
    /\ pc = "loop_handle"
    /\ pc' = "rst_disconnect"
    /\ HandlerFrame

(* --------------------- sys_restart, lines 328-342 ---------------------- *)
\* line 331
RstDisconnect ==
    /\ pc = "rst_disconnect"
    /\ wifi' = "disconnected"
    /\ rst_log' = Append(rst_log, "disconnect")
    /\ pc' = "rst_off"
    /\ UNCHANGED <<chanVars, readerVars, engineVars, clockVars, trackerVars,
                   setup_i, gps, data, eval>>

\* line 332
RstOff ==
    /\ pc = "rst_off"
    /\ wifi' = "off"
    /\ rst_log' = Append(rst_log, "off")
    /\ pc' = "rst_send"
    /\ UNCHANGED <<chanVars, readerVars, engineVars, clockVars, trackerVars,
                   setup_i, gps, data, eval>>

\* line 333: the response to the restart request is handed to the server;
\* the send may or may not get through
RstSend ==
    /\ pc = "rst_send"
    /\ \E ok \in BOOLEAN :
          rst_log' = Append(rst_log, IF ok THEN "sent" ELSE "send failed")
    /\ pc' = "rst_reset"
    /\ UNCHANGED <<chanVars, readerVars, engineVars, clockVars, trackerVars,
                   setup_i, gps, data, wifi, eval>>

(* ------------------------- loop, lines 87-97 --------------------------- *)
\* the condition of line 91 without its clock test
GpsDueAlways(avail, age) == avail > 0
\* the condition of the if of line 91
GpsDue(avail, age) == avail > 0 /\ age > GpsInterval

\* line 91: millis() is read and the condition of the if evaluated; when it
\* holds, line 93 calls read_serial
LoopGps ==
    /\ pc = "loop_gps"
    /\ \E d \in PollTicks : Pass(d)
    /\ IF GpsDue(available("GPS"), gps_read_age')
       THEN CallRS("GPS", "gps_feed")
       ELSE pc' = "loop_handle" /\ UNCHANGED <<softSerial, rs_ret>>
    /\ UNCHANGED <<msgStream, bufferfull, buff_pos, taken, chanVars,
                   engineVars, trackerVars, otherVars>>

\* line 95: last_gps_read = millis(); gps_encode has returned
LoopMark ==
    /\ pc = "loop_mark"
    /\ gps_read_age' = 0
    /\ eval' = [fix |-> eval.fix, prevFix |-> NoFix, valid |-> FALSE,
                before |-> <<0, 0, 0, 0>>, uploaded |-> FALSE]
    /\ events' = <<>>
    /\ data' = <<>>
    /\ pc' = "loop_handle"
    /\ UNCHANGED <<send_age, chanVars, readerVars, CMD, _timeout,
                   ASSERT_BUFFER, at_ret, rx_exch, lastResponse, trackerVars,
                   setup_i, gps, wifi, rst_log>>

(* --------------------- gps_encode, lines 197-256 ----------------------- *)
\* gps.encode(c), line 204: a position sentence commits its position and
\* makes the location valid for good; anything else leaves the decoder as is
encode(g, c) ==
    IF FixOf(c) # NoFix
    THEN [valid |-> TRUE, lat |-> FixOf(c)[1], lng |-> FixOf(c)[2]]
    ELSE g

\* the loop of lines 202-211 over the text in the buffer
RECURSIVE encodeAll(_, _)
encodeAll(g, str) ==
    IF str = <<>> THEN g ELSE encodeAll(encode(g, Head(str)), Tail(str))

\* the position the frame itself carries: that of its last position sentence
RECURSIVE FrameFix(_)
FrameFix(str) ==
    IF str = <<>> THEN NoFix
    ELSE IF FixOf(str[Len(str)]) # NoFix THEN FixOf(str[Len(str)])
    ELSE FrameFix(SubSeq(str, 1, Len(str) - 1))

\* the comparison of line 235 on the latitude alone
ChangedLat(lat, lng, nlat, nlng) == lat # nlat
\* the comparison of line 235 with AND in place of OR
ChangedBoth(lat, lng, nlat, nlng) == lat # nlat /\ lng # nlng
\* the comparison of line 235 always true
ChangedAlways(lat, lng, nlat, nlng) == TRUE
\* the comparison of line 235
Changed(lat, lng, nlat, nlng) == lat # nlat \/ lng # nlng

\* lines 200-220: the frame is fed to the decoder, a valid location is copied
GpsFeed ==
    /\ pc = "gps_feed"
    /\ gps' = encodeAll(gps, CStr(msgStream))
    /\ IF gps'.valid
       THEN _lat' = gps'.lat /\ _long' = gps'.lng
       ELSE UNCHANGED <<_lat, _long>>
    /\ eval' = [fix |-> FrameFix(CStr(msgStream)), prevFix |-> eval.fix,
                valid |-> gps'.valid,
                before |-> <<_lat, _long, _newLat, _newLong>>,
                uploaded |-> FALSE]
    /\ events' = <<>>
    /\ pc' = "gps_eval"
    /\ UNCHANGED <<_prevLat, _prevLong, _newLat, _newLong, isLocationUpdated,
                   chanVars, readerVars, clockVars, CMD, _timeout,
                   ASSERT_BUFFER, at_ret, rx_exch, lastResponse, setup_i,
                   data, wifi, rst_log>>

\* lines 235-255: change detection; on a change PUT_REQUEST is called
GpsEval ==
    /\ pc = "gps_eval"
    /\ IF Changed(_lat, _long, _newLat, _newLong)
       THEN /\ _newLat' = _lat
            /\ _newLong' = _long
            /\ isLocationUpdated' = TRUE
            /\ data' = Payload(_newLat', _newLong')
            /\ eval' = [eval EXCEPT !.uploaded = TRUE]
            /\ pc' = "put_1"
            /\ UNCHANGED <<_prevLat, _prevLong>>
       ELSE /\ _prevLat' = _newLat
            /\ _prevLong' = _newLong
            /\ isLocationUpdated' = FALSE
            /\ pc' = "loop_mark"
            /\ UNCHANGED <<_newLat, _newLong, data, eval>>
    /\ UNCHANGED <<_lat, _long, chanVars, readerVars, engineVars, clockVars,
                   setup_i, gps, wifi, rst_log>>

(* --------------------- PUT_REQUEST, lines 186-195 ---------------------- *)
\* lines 189-193: the length declaration
Put1 ==
    /\ pc = "put_1"
    /\ CallAT(HTTPCFG(data_length(data)), DefaultTimeout, FALSE, "put_2")
    /\ UNCHANGED <<rx_exch, lastResponse, events, msgStream, bufferfull,
                   buff_pos, taken, rs_ret, chanVars, clockVars,
                   trackerVars, otherVars>>

\* line 194: the payload
Put2 ==
    /\ pc = "put_2"
    /\ CallAT(DataLine(data), DefaultTimeout, FALSE, "loop_mark")
    /\ UNCHANGED <<rx_exch, lastResponse, events, msgStream, bufferfull,
                   buff_pos, taken, rs_ret, chanVars, clockVars,
                   trackerVars, otherVars>>

(* ------------------------------ Init ----------------------------------- *)
NoEval == [fix |-> NoFix, prevFix |-> NoFix, valid |-> FALSE,
           before |-> <<0, 0, 0, 0>>, uploaded |-> FALSE]

\* the globals of lines 39-60 as the C++ runtime initialises them, with
\* control at position p
InitAt(p) ==
    /\ pc = p
    /\ at_ret = "none"
    /\ rs_ret = "none"
    /\ setup_i = 1
    /\ GSM_Serial = <<>>
    /\ GPS_Serial = <<>>
    /\ softSerial = "none"
    /\ msgStream = [i \in BufIdx |-> NUL]
    /\ bufferfull = FALSE
    /\ buff_pos = 0
    /\ CMD = NoCmd
    /\ _timeout = 0
    /\ ASSERT_BUFFER = FALSE
    /\ send_age = 0
    /\ gps_read_age = 0
    /\ gps = [valid |-> FALSE, lat |-> 0, lng |-> 0]
    /\ _lat = 0 /\ _long = 0
    /\ _prevLat = 0 /\ _prevLong = 0
    /\ _newLat = 0 /\ _newLong = 0
    /\ isLocationUpdated = FALSE
    /\ data = <<>>
    /\ wifi = "off"
    /\ taken = <<>>
    /\ rx_exch = {}
    /\ lastResponse = <<>>
    /\ events = <<>>
    /\ eval = NoEval
    /\ rst_log = <<>>

(* --------------- the engine on its own: any caller --------------------- *)
\* a caller issues sendATcommand(&GSM_Serial, CMD, _timeout, fill_buffer)
\* with any timeout and any fill_buffer (declaration, line 47)
ExecCall ==
    /\ pc = "exec_idle"
    /\ \E t \in 0 .. MaxTimeout, fill \in BOOLEAN :
          CallAT(Line("AT"), t, fill, "exec_idle")
    /\ events' = <<>>
    /\ UNCHANGED <<rx_exch, lastResponse, msgStream, bufferfull,
                   buff_pos, taken, rs_ret, chanVars, clockVars,
                   trackerVars, setup_i, gps, data, wifi, eval, rst_log>>

InitExec == InitAt("exec_idle")

NextExec ==
    \/ ExecCall
    \/ ATFlush \/ ATSend \/ ATPoll \/ ATCond \/ ATDone
    \/ RSInit \/ RSLoop \/ RSReturn
    \/ GsmArrive

SpecExec == InitExec /\ [][NextExec]_vars

\* the single thread of control never stops while it is inside read_serial
\* or sendATcommand, and the clock keeps advancing: of the readings of
\* millis() at line 143, infinitely many see a later time
EngineStep ==
    \/ ATFlush \/ ATSend \/ ATPoll \/ ATCond \/ ATDone
    \/ RSInit \/ RSLoop \/ RSReturn
ATCondTick == ATCond /\ send_age' = Min(send_age + 1, SendAgeCap)
EngineFair == WF_vars(EngineStep) /\ SF_vars(ATCondTick)

SpecExecFair == InitExec /\ [][NextExec]_vars /\ EngineFair

(* --------------- the reader on its own: any caller --------------------- *)
\* a caller issues read_serial(src, msgStream) on either channel, whatever
\* the channel holds at that moment
ReadCall ==
    /\ pc = "read_idle"
    /\ \E src \in {"GSM", "GPS"} : CallRS(src, "read_idle")
    /\ UNCHANGED <<msgStream, bufferfull, buff_pos, taken, chanVars,
                   engineVars, clockVars, trackerVars, otherVars>>

InitRead == InitAt("read_idle")

NextRead ==
    \/ ReadCall
    \/ RSInit \/ RSLoop \/ RSReturn
    \/ GpsArrive \/ GsmArrive

SpecRead == InitRead /\ [][NextRead]_vars

\* the thread never stops while it is inside read_serial
ReaderStep == RSInit \/ RSLoop \/ RSReturn
SpecReadFair == InitRead /\ [][NextRead]_vars /\ WF_vars(ReaderStep)

(* --------------------------- the program ------------------------------- *)
\* delay(5000) and ESP.restart(), lines 335-336: the device starts again
\* from the reset state, whatever became of the response
RstReset ==
    /\ pc = "rst_reset"
    /\ pc' = "setup_begin"
    /\ at_ret' = "none"
    /\ rs_ret' = "none"
    /\ setup_i' = 1
    /\ GSM_Serial' = <<>>
    /\ GPS_Serial' = <<>>
    /\ softSerial' = "none"
    /\ msgStream' = [i \in BufIdx |-> NUL]
    /\ bufferfull' = FALSE
    /\ buff_pos' = 0
    /\ CMD' = NoCmd
    /\ _timeout' = 0
    /\ ASSERT_BUFFER' = FALSE
    /\ send_age' = 0
    /\ gps_read_age' = 0
    /\ gps' = [valid |-> FALSE, lat |-> 0, lng |-> 0]
    /\ _lat' = 0 /\ _long' = 0
    /\ _prevLat' = 0 /\ _prevLong' = 0
    /\ _newLat' = 0 /\ _newLong' = 0
    /\ isLocationUpdated' = FALSE
    /\ data' = <<>>
    /\ wifi' = "off"
    /\ taken' = <<>>
    /\ rx_exch' = {}
    /\ lastResponse' = <<>>
    /\ events' = <<>>
    /\ eval' = NoEval
    /\ rst_log' = <<>>

Init == InitAt("setup_begin")

Next ==
    \/ Setup \/ SetupAT \/ SetupWait \/ EnableGPRS \/ EnterLoop
    \/ HandleNone \/ GpsStatusSend \/ DisplayLogs \/ HandleNotFound
    \/ SysRestart
    \/ RstDisconnect \/ RstOff \/ RstSend \/ RstReset
    \/ LoopGps \/ GpsFeed \/ GpsEval \/ Put1 \/ Put2 \/ LoopMark
    \/ ATFlush \/ ATSend \/ ATPoll \/ ATCond \/ ATDone
    \/ RSInit \/ RSLoop \/ RSReturn
    \/ GpsArrive \/ GsmArrive

Spec == Init /\ [][Next]_vars

\* the single thread of control never stops (setup, then loop called again
\* and again by the runtime), and the clock keeps advancing
ProgramStep ==
    \/ Setup \/ SetupAT \/ SetupWait \/ EnableGPRS \/ EnterLoop
    \/ HandleNone \/ GpsStatusSend \/ DisplayLogs \/ HandleNotFound
    \/ SysRestart
    \/ RstDisconnect \/ RstOff \/ RstSend \/ RstReset
    \/ LoopGps \/ GpsFeed \/ GpsEval \/ Put1 \/ Put2 \/ LoopMark
    \/ EngineStep

SpecFair == Init /\ [][Next]_vars /\ WF_vars(ProgramStep) /\ SF_vars(ATCondTick)

(* ============================ properties =============================== *)
\* the frame in the buffer as text
Response == CStr(msgStream)

\* C1 (as claimed): when the wait loop of an exchange has ended, every byte of
\* the Response was taken from the modem channel during that exchange; if
\* nothing was taken the Response is empty.
C1_ResponseIsFresh ==
    pc = "at_done" =>
        /\ \A i \in 1 .. Len(Response) : Response[i] \in rx_exch
        /\ (rx_exch = {} => Response = <<>>)

\* C2 (as claimed): the wait loop leaves WAITING for DONE exactly when
\* elapsed >= timeout OR NOT fill_buffer, elapsed being the value line 143
\* reads.
C2_ExitIsDisjunction ==
    [][(pc = "at_cond" /\ pc' # "at_cond") =>
          ((pc' = "at_done") <=> (send_age' >= _timeout \/ ~ ASSERT_BUFFER))]_vars

\* C2 (amended): the wait loop leaves WAITING for DONE exactly when
\* elapsed >= timeout AND NOT fill_buffer; otherwise it polls again.
C2_ExitIsConjunction ==
    [][(pc = "at_cond" /\ pc' # "at_cond") =>
          /\ (pc' = "at_done") <=> (send_age' >= _timeout /\ ~ ASSERT_BUFFER)
          /\ pc' \in {"at_done", "at_poll"}]_vars

\* C2 witness: in fill mode the loop is polling again although the timeout
\* has passed, the case in which conjunction and disjunction differ
C2_Witness == pc = "at_poll" /\ ASSERT_BUFFER /\ send_age > _timeout

\* C3 (as claimed): without fill mode the exchange is DONE no earlier than
\* the timeout and no later than the timeout plus one poll granularity (one
\* tick), whatever the modem delivers.
C3_WithinOnePoll ==
    (pc = "at_done" /\ ~ ASSERT_BUFFER) =>
        /\ send_age >= _timeout
        /\ send_age <= _timeout + 1

\* C3 (amended): without fill mode the exchange is DONE no earlier than the
\* timeout and no later than the timeout plus one poll granularity plus the
\* settle delays of one read_serial call, at most MESSAGE_BUFFER_SIZE - 1.
C3_WithinOneRead ==
    (pc = "at_done" /\ ~ ASSERT_BUFFER) =>
        /\ send_age >= _timeout
        /\ send_age <= _timeout + 1 + (MESSAGE_BUFFER_SIZE - 1) * SettleDelay

\* C3 witness: an exchange ended later than one poll after its timeout
C3_Witness == pc = "at_done" /\ ~ ASSERT_BUFFER /\ send_age > _timeout + 1

\* gps_encode has returned to loop, line 95 is next
EvalDone == pc = "loop_mark"

\* C4 (as claimed): an evaluation of a frame carrying a valid Fix uploads
\* exactly when the frame evaluated before it did not carry the same Fix,
\* and on a repeated Fix isLocationUpdated is false.
C4_UploadOnFirstOnly ==
    (EvalDone /\ eval.fix # NoFix) =>
        /\ eval.uploaded <=> (eval.prevFix # eval.fix)
        /\ (eval.prevFix = eval.fix => ~ isLocationUpdated)

\* C4 (amended): a repeated Fix never uploads and leaves isLocationUpdated
\* false; a Fix uploads exactly when it differs from the position last
\* reported (_newLat, _newLong) before the evaluation.
C4_UploadOnChangeOnly ==
    (EvalDone /\ eval.fix # NoFix) =>
        /\ eval.uploaded <=> (eval.fix # <<eval.before[3], eval.before[4]>>)
        /\ isLocationUpdated <=> eval.uploaded
        /\ (eval.prevFix = eval.fix => ~ eval.uploaded /\ ~ isLocationUpdated)

\* C4 witness: the same Fix has been evaluated twice in a row
C4_Witness == EvalDone /\ eval.fix # NoFix /\ eval.prevFix = eval.fix

\* the entries of rst_log that record the attempt to respond
SendAttempts == {"sent", "send failed"}

\* C5 (as claimed): in sys_restart no teardown of the network precedes the
\* attempt to respond, and the reset is only reached after that attempt.
C5_RespondBeforeTeardown ==
    /\ \A i \in 1 .. Len(rst_log) :
          rst_log[i] \in SendAttempts =>
              \A j \in 1 .. (i - 1) : rst_log[j] \notin {"disconnect", "off"}
    /\ pc = "rst_reset" => \E i \in 1 .. Len(rst_log) : rst_log[i] \in SendAttempts

\* C6: when read_serial returns a frame shorter than the capacity, the buffer
\* holds exactly the bytes taken from the source in this call, in order, and
\* NUL everywhere else.
C6_ExactFrame ==
    (pc = "rs_return" /\ Len(taken) < MESSAGE_BUFFER_SIZE) =>
        /\ DOMAIN msgStream = BufIdx
        /\ \A i \in BufIdx :
              msgStream[i] = IF i < Len(taken) THEN taken[i + 1] ELSE NUL

\* C6 witness: a frame of two different bytes, shorter than the capacity,
\* has been read
C6_Witness ==
    /\ pc = "rs_return"
    /\ Len(taken) = 2 /\ Len(taken) < MESSAGE_BUFFER_SIZE
    /\ taken[1] # taken[2]

\* C7: the write index stays inside the buffer at every step; a call that
\* took MESSAGE_BUFFER_SIZE bytes from the source stored the first
\* MESSAGE_BUFFER_SIZE - 1 of them, terminated them inside the buffer and set
\* bufferfull, and bufferfull is set in no other case.
C7_Overflow ==
    /\ buff_pos \in BufIdx
    /\ DOMAIN msgStream = BufIdx
    /\ pc = "rs_return" =>
          /\ bufferfull <=> (Len(taken) >= MESSAGE_BUFFER_SIZE)
          /\ bufferfull =>
                /\ buff_pos = MESSAGE_BUFFER_SIZE - 1
                /\ Response = SubSeq(taken, 1, MESSAGE_BUFFER_SIZE - 1)
                /\ msgStream[MESSAGE_BUFFER_SIZE - 1] = NUL

\* C7 witness: a call has ended with the overflow flag set
C7_Witness == pc = "rs_return" /\ bufferfull

\* the number a sequence of decimal digits denotes
DigitVal(ch) == CHOOSE k \in 0 .. 9 : Digit(k) = ch
RECURSIVE DecValue(_)
DecValue(ds) ==
    IF ds = <<>> THEN 0
    ELSE 10 * DecValue(SubSeq(ds, 1, Len(ds) - 1)) + DigitVal(ds[Len(ds)])

\* what an upload of payload p must leave in the event log
UploadEvents(p) ==
    LET first == [head |-> "AT+QHTTPPUT=", arg |-> DecDigits(Len(p)),
                  tail |-> ",30,60"]
        second == [head |-> "", arg |-> p, tail |-> ""]
    IN  << <<"SENT", first>>, <<"DONE", first>>,
           <<"SENT", second>>, <<"DONE", second>> >>

\* an upload is under way or has just returned
InUpload == eval.uploaded /\ (pc \in {"put_1", "put_2", "loop_mark"}
                              \/ at_ret \in {"put_2", "loop_mark"})

\* C8: an upload issues exactly two exchanges, the length declaration
\* first, whose declared number is the length of the payload, then the
\* payload, each line written once and the second sent after the first is
\* DONE.
C8_TwoExchanges ==
    InUpload =>
        LET want == UploadEvents(Payload(_newLat, _newLong)) IN
        /\ Len(events) <= 4
        /\ events = SubSeq(want, 1, Len(events))
        /\ EvalDone =>
              /\ events = want
              /\ DecValue(events[1][2].arg) = Len(events[3][2].arg)

\* C8 witness: an upload has completed
C8_Witness == EvalDone /\ eval.uploaded /\ Len(events) = 4

\* gps_encode is past the decoder step of the current evaluation
InEval == pc \in {"gps_eval", "put_1", "put_2", "loop_mark"}
          \/ at_ret \in {"put_2", "loop_mark"}

\* C9: an evaluation in which the decoder reports no valid location leaves
\* _lat, _long, _newLat and _newLong as they were and uploads nothing.
C9_InvalidFixIgnored ==
    (InEval /\ ~ eval.valid) =>
        /\ <<_lat, _long, _newLat, _newLong>> = eval.before
        /\ ~ eval.uploaded
        /\ pc \in {"gps_eval", "loop_mark"}

\* C9 witness: an evaluation without a valid location has completed
C9_Witness == EvalDone /\ ~ eval.valid

\* C10 (as claimed): whenever the loop is about to serve a diagnostics
\* request, the text the logs view renders is the Response of the most
\* recently completed exchange.
C10_LogsShowLastResponse ==
    pc = "loop_handle" => LogsPage(msgStream).body = lastResponse

\* the loop is inside its GPS branch, lines 93-94: the frame is being read
\* or evaluated
InGpsBranch == rs_ret = "gps_feed" \/ pc = "gps_feed" \/ InEval

\* C11: a GPS frame is read and evaluated only when more than the polling
\* interval has elapsed since last_gps_read was recorded, the first time
\* after setup included, and the clock difference is still above the
\* interval when the evaluation and its upload have run.
C11_RateLimited == InGpsBranch => gps_read_age > GpsInterval

\* C11 witness: a frame is about to be evaluated after an earlier frame with
\* a Fix was evaluated and uploaded
C11_Witness ==
    /\ pc = "gps_feed" /\ eval.fix # NoFix /\ _newLat # 0
    /\ gps_read_age > GpsInterval

\* C12: in fill mode an exchange in which no byte has been taken from the
\* modem never reaches DONE, however large the elapsed time.
C12_FillNeverTimesOut ==
    (ASSERT_BUFFER /\ rx_exch = {}) => pc # "at_done"

\* C12 witness: a fill-mode exchange with a silent modem is still waiting
\* when the elapsed time is far beyond every timeout
C12_Witness ==
    /\ pc = "at_cond" /\ ASSERT_BUFFER /\ rx_exch = {}
    /\ send_age = SendAgeCap /\ send_age > _timeout + 1

\* C13 (as claimed): in fill mode, once bytes of the modem have been
\* captured into the buffer during the exchange, the exchange eventually
\* reaches DONE.
C13_GrowthCompletes ==
    (ASSERT_BUFFER /\ InExchange /\ rx_exch # {}) ~> (pc = "at_done")

\* the branch of lines 235-255 has been taken in the current evaluation
EvalTaken == pc \in {"put_1", "put_2", "loop_mark"}
             \/ at_ret \in {"put_2", "loop_mark"}

\* C14: once the branch of an evaluation is taken, isLocationUpdated is true
\* exactly when the current position differed from the last reported one as
\* it was before the evaluation; PUT_REQUEST is entered exactly when it is
\* true; and in both branches the last reported position equals the current
\* one.
C14_UpdatedIffChanged ==
    EvalTaken =>
        /\ isLocationUpdated <=>
              (<<_lat, _long>> # <<eval.before[3], eval.before[4]>>)
        /\ isLocationUpdated =>
              (pc \in {"put_1", "put_2"} \/ at_ret \in {"put_2", "loop_mark"}
               \/ Len(events) = 4)
        /\ ~ isLocationUpdated => (pc = "loop_mark" /\ events = <<>>)
        /\ <<_newLat, _newLong>> = <<_lat, _long>>

\* C14 witness: an evaluation found the longitude alone changed against a
\* position reported earlier, and its upload has returned
C14_Witness ==
    /\ EvalDone /\ isLocationUpdated
    /\ eval.before[3] = _lat /\ eval.before[3] # 0 /\ eval.before[4] # _long

\* C15 (as claimed): when read_serial returns, the frame holds every byte the
\* call removed from the source, in order, also when the capacity was hit.
C15_NoByteLost == pc = "rs_return" => Response = taken

\* C16: inside an exchange every call of read_serial first erases the
\* buffer, returns with exactly the bytes of its own burst in it (cut at the
\* capacity), and nothing else writes the buffer until DONE; so the Response
\* at DONE is the frame of the last burst read, not the bytes of all bursts.
C16_NewestFrameOnly ==
    [][InExchange =>
          /\ (pc = "rs_init" /\ pc' = "rs_loop") => CStr(msgStream') = <<>>
          /\ (pc' = "rs_return") =>
                CStr(msgStream') =
                    SubSeq(taken', 1, Min(Len(taken'), MESSAGE_BUFFER_SIZE - 1))
          /\ (pc \in {"rs_return", "at_poll", "at_cond", "at_done"}) =>
                msgStream' = msgStream]_vars

\* C16 witness: in an exchange that has already captured a burst the reader
\* has been called again and has erased the earlier frame
C16_Witness ==
    /\ pc = "rs_loop" /\ rs_ret = "at_cond"
    /\ rx_exch # {} /\ taken = <<>> /\ Response = <<>>
    /\ available("GSM") > 0

\* C17 (as claimed): whenever an evaluation has left isLocationUpdated true,
\* the previous position the status view shows (_prevLat, _prevLong) is the
\* position that was the last reported one just before that evaluation.
C17_PrevIsLastReported ==
    (EvalTaken /\ isLocationUpdated) =>
        <<_prevLat, _prevLong>> = <<eval.before[3], eval.before[4]>>

\* sendATcommand has been called and has not returned
InCall == pc \in {"at_flush", "at_send"} \/ InExchange

C19_ReaderTerminates ==
    /\ (pc = "rs_init") ~> (pc = "rs_return")
    /\ [][(pc = "rs_loop" /\ available(softSerial) = 0 /\ pc' # pc) =>
              (pc' = "rs_return" /\ taken' = taken)]_vars
    /\ [](Len(taken) <= MESSAGE_BUFFER_SIZE
           /\ buff_pos <= MESSAGE_BUFFER_SIZE - 1)

\* C19 witness: a call on the GPS channel ended only because it had taken
\* as many bytes as the buffer has cells
C19_Witness ==
    /\ pc = "rs_return" /\ softSerial = "GPS"
    /\ Len(taken) = MESSAGE_BUFFER_SIZE /\ buff_pos = MESSAGE_BUFFER_SIZE - 1

\* C20: in loop the request queue is serviced first and the GPS channel
\* polled second, and the loop is re-entered only from its own end or from
\* setup; while an exchange is between SENT and DONE control is in
\* sendATcommand or in its read of the modem channel, so no handler runs, no
\* byte is taken from the GPS channel and the tracker state keeps its
\* values.
C20_Serialised ==
    [][/\ (pc' = "loop_gps" /\ pc # "loop_gps") => pc = "loop_handle"
       /\ (pc = "loop_handle" /\ pc' # pc) =>
             pc' \in {"loop_gps", "rst_disconnect"}
       /\ (pc' = "loop_handle" /\ pc # pc') =>
             pc \in {"loop_gps", "loop_mark", "gprs"}
       /\ InExchange =>
             /\ pc' \in {"at_poll", "at_cond", "at_done", "rs_init",
                         "rs_loop", "rs_return", at_ret}
             /\ softSerial = "GSM"
             /\ Len(GPS_Serial') >= Len(GPS_Serial)
             /\ trackerVars' = trackerVars]_vars

\* C20 witness: during the second exchange of an upload a GPS frame is
\* waiting and the polling interval has passed, yet the exchange goes on
C20_Witness ==
    /\ pc = "at_poll" /\ at_ret = "loop_mark"
    /\ available("GPS") > 0 /\ gps_read_age > GpsInterval
    /\ send_age > 0

====
